---- MODULE Spec2Model ----
(***************************************************************************)
(* Model of the OK parser ingestion pipeline (src/parser): the rate-limited *)
(* transport OKApiClient.request, the Mongo repositories' upserts and the   *)
(* orchestrator ParserService (parse_group, parse_discussion,               *)
(* parse_all_discussions, full_parse).                                      *)
(*                                                                          *)
(* Strings that the code validates (group ids, discussion ids) are          *)
(* sequences of one-character strings, so that str.strip() and              *)
(* str.isdigit() are computed.  A JSON object is a record whose DOMAIN is   *)
(* the set of keys present, so that dict.get(key, default) is computed.     *)
(* {} and "" are the empty function; None is a record of its own.           *)
(***************************************************************************)
EXTENDS Integers, Sequences, FiniteSets, TLC

\* ------------------------------------------------------------------ bounds
\* longest discussion listing one discussions.getList page returns
MaxListing == 2
\* longest comment list one discussions.getComments page returns
MaxBatch == 2
\* number of upsert_many calls of the repository model
MaxUpserts == 3
\* latest wall-clock tick of the transport model
MaxTime == 9
\* number of OKApiClient.request calls of the transport model
MaxCalls == 3
\* the clock tick after which the threads' clock stands still
LastTick == 6
\* number of signing calls on one OKAuth object
MaxSignings == 3

\* the rate_limit_delay the client is constructed with, in clock ticks
RateLimitDelay == 2

\* --------------------------------------------------------- program constants
\* OKApiClient.__init__: self._last_request_time = 0
InitialLastRequestTime == 0

\* ------------------------------------------------------------ python values
Digits == {"4", "7"}
Empty == <<>>
\* Python's None, told apart from the empty dict {} (the empty record) and
\* from the empty str (the empty sequence), which are all falsy
None == [None |-> TRUE]
IsNone(x) == DOMAIN x = {"None"}

\* bool(x) of a dict or of None
Truthy(x) == DOMAIN x # {} /\ ~IsNone(x)

\* bool(s) of a str
TruthyStr(s) == Len(s) > 0

\* dict.get(key, default)
Get(d, key, default) == IF key \in DOMAIN d THEN d[key] ELSE default

RECURSIVE LStrip(_)
LStrip(s) == IF s # Empty /\ Head(s) = " " THEN LStrip(Tail(s)) ELSE s

RECURSIVE RStrip(_)
RStrip(s) ==
    IF s # Empty /\ s[Len(s)] = " " THEN RStrip(SubSeq(s, 1, Len(s) - 1)) ELSE s

\* str.strip()
Strip(s) == RStrip(LStrip(s))

\* str.isdigit(): non-empty and every character a digit
IsDigit(s) == s # Empty /\ \A i \in 1..Len(s) : s[i] \in Digits

\* s[:n] for n >= 0
Prefix(s, n) == SubSeq(s, 1, IF n < Len(s) THEN n ELSE Len(s))

\* all sequences over S of length at most n
SeqsUpTo(S, n) == UNION {[1..k -> S] : k \in 0..n}

\* mutant of ValidGroupId: the group id is not tested at all
ValidGroupIdUntested(g) == TRUE

\* the `not group_id or not str(group_id).strip().isdigit()` test, negated
ValidGroupId(g) == TruthyStr(g) /\ IsDigit(Strip(g))

\* the `not discussion_id or not str(discussion_id).strip()` test, negated
ValidDiscussionId(d) == TruthyStr(d) /\ TruthyStr(Strip(d))

\* ------------------------------------------------------- HTTP round trips
\* A decoded JSON body: null, a list of objects or one object.
JNull == [t |-> "null", v |-> <<None>>]
JList(items) == [t |-> "list", v |-> items]
JDict(d) == [t |-> "dict", v |-> <<d>>]

\* What requests.get / raise_for_status / response.json() meet on one round
\* trip: a network failure, a non-2xx status, a 2xx with an undecodable
\* body, or a 2xx with a decoded body.
NetworkFailure == [kind |-> "network", body |-> JNull]
HttpFailure == [kind |-> "status", body |-> JNull]
Undecodable == [kind |-> "badjson", body |-> JNull]
Ok(body) == [kind |-> "ok", body |-> body]
\* a body carrying error_code at its top level
ApiErrorBody == JDict([error_code |-> "100", error_msg |-> "PARAM"])

\* OKApiClient.request, lines 51-74: does raise_for_status() pass, so that
\* line 54 runs and the cursor is set
ReachesCursorUpdate(resp) == resp.kind \in {"ok", "badjson"}

\* mutant of SleepTime: no wait at all
SleepTimeNone(elapsed) == 0

\* OKApiClient._wait_rate_limit, lines 33-36: the argument of time.sleep
\* (0 when it does not sleep)
SleepTime(elapsed) ==
    IF elapsed < RateLimitDelay THEN RateLimitDelay - elapsed ELSE 0

\* `"error_code" in data`: a key of a dict body (for a list body the test
\* is membership of the string among the items, which are objects)
HasErrorCode(body) == body.t = "dict" /\ "error_code" \in DOMAIN body.v[1]

\* mutant of RequestRaises: the error_code test of lines 64-68 is missing
RequestRaisesTransportOnly(resp) == resp.kind \in {"network", "status", "badjson"}

\* OKApiClient.request: does the call raise
RequestRaises(resp) ==
    \/ resp.kind \in {"network", "status", "badjson"}
    \/ resp.kind = "ok" /\ resp.body.t # "null" /\ HasErrorCode(resp.body)

\* OKApiClient.request: the value returned when it does not raise (None is
\* JNull)
RequestData(resp) == resp.body

\* ------------------------------------------------------------- normalizers
\* Group.from_api: uid = str(data.get("uid", data.get("id", "")))
GroupFromApi(data) == [uid |-> Get(data, "uid", Get(data, "id", Empty))]

\* Discussion.from_api raises (inside the orchestrator's try) when
\* creation_date is truthy and no str: strptime raises TypeError, which the
\* `except ValueError` does not swallow.
DiscussionFromApiRaises(data) ==
    /\ "creation_date" \in DOMAIN data
    /\ data.creation_date = "int"

\* Discussion.from_api: id = str(data.get("object_id", data.get("id", "")))
DiscussionFromApi(data, gid) ==
    [id |-> Get(data, "object_id", Get(data, "id", Empty)), group_id |-> gid]

\* Comment.from_api: id = str(data.get("id", "")); discussion_id and
\* group_id are the caller's; val stands for the payload's other fields
\* (text, author, created_at, likes_count, reply_to_id).
CommentFromApi(data, did, gid) ==
    [id |-> Get(data, "id", Empty), discussion_id |-> did, group_id |-> gid,
     val |-> Get(data, "val", 0)]

\* ------------------------------------------------------------ repositories
\* A collection is the sequence of its documents in insertion order.
\* mutant of Matches: the filter compares the whole document, not the key
MatchesWholeDocument(coll, key, doc) == {i \in 1..Len(coll) : coll[i] = doc}

\* the documents the filter {key: doc[key]} selects
Matches(coll, key, doc) == {i \in 1..Len(coll) : coll[i][key] = doc[key]}

Least(S) == CHOOSE i \in S : \A j \in S : i <= j

\* mutant of UpdateOne: the collection is emptied and the document inserted
UpdateOneDropsOthers(coll, key, doc) ==
    [coll |-> <<doc>>, upserted |-> 1, modified |-> 0]

\* mutant of UpdateOne: a plain insert_one, no look-up by the key
UpdateOneInsertsOnly(coll, key, doc) ==
    [coll |-> Append(coll, doc), upserted |-> 1, modified |-> 0]

\* collection.update_one({key: doc[key]}, {"$set": doc}, upsert=True): the
\* first matching document gets every field of doc, and when none matches
\* doc is inserted.  upserted and modified are the driver's counts.
UpdateOne(coll, key, doc) ==
    LET hits == Matches(coll, key, doc) IN
    IF hits = {}
    THEN [coll |-> Append(coll, doc), upserted |-> 1, modified |-> 0]
    ELSE [coll |-> [coll EXCEPT ![Least(hits)] = doc],
          upserted |-> 0,
          modified |-> IF coll[Least(hits)] = doc THEN 0 ELSE 1]

\* collection.bulk_write(operations), ordered: the UpdateOne operations of
\* the batch applied in order, the counts summed.
RECURSIVE BulkWrite(_, _)
BulkWrite(coll, docs) ==
    IF docs = <<>>
    THEN [coll |-> coll, upserted |-> 0, modified |-> 0]
    ELSE LET one == UpdateOne(coll, "id", Head(docs))
             rest == BulkWrite(one.coll, Tail(docs))
         IN [coll |-> rest.coll,
             upserted |-> one.upserted + rest.upserted,
             modified |-> one.modified + rest.modified]

\* mutant of UpsertMany: only result.upserted_count is returned
UpsertManyCountsInserted(coll, comments) ==
    IF comments = <<>>
    THEN [coll |-> coll, count |-> 0]
    ELSE [coll |-> BulkWrite(coll, comments).coll,
          count |-> BulkWrite(coll, comments).upserted]

\* CommentRepository.upsert_many: [coll, count]; an empty batch returns 0
\* without touching the store.
UpsertMany(coll, comments) ==
    IF comments = <<>>
    THEN [coll |-> coll, count |-> 0]
    ELSE LET r == BulkWrite(coll, comments)
         IN [coll |-> r.coll, count |-> r.upserted + r.modified]

\* GroupRepository.upsert
GroupUpsert(coll, group) == UpdateOne(coll, "uid", group).coll

\* mutant of DiscussionUpsert: nothing is written
DiscussionUpsertNothing(coll, discussion) == coll

\* DiscussionRepository.upsert
DiscussionUpsert(coll, discussion) == UpdateOne(coll, "id", discussion).coll

\* ---------------------------------------------------------- the API's data
\* group ids a caller passes to full_parse: empty, non-numeric, numeric, and
\* numeric with a leading blank (valid after strip())
GroupIdInputs == {Empty, <<"x">>, <<"4">>, <<" ", "4">>}

\* discussion ids a caller passes: empty, blank, and an id
DiscussionIdInputs == {Empty, <<" ">>, <<"1">>}

\* max_discussions: None, or an int
NoCap == [some |-> FALSE, n |-> 0]
Cap(n) == [some |-> TRUE, n |-> n]
Caps == {NoCap} \cup {Cap(n) : n \in 0..(MaxListing - 1)}

\* the entity a group.getInfo body carries for group uid u: keyed by uid, by
\* id, or by neither
GroupEntities(u) == {[uid |-> u], [id |-> u], [name |-> <<"G">>]}

FailedRoundTrips == {NetworkFailure, HttpFailure, Undecodable, Ok(ApiErrorBody)}

GroupInfoResponses(u) ==
    FailedRoundTrips
    \cup {Ok(JNull), Ok(JList(<<>>)), Ok(JList(<<None>>)), Ok(JList(<<Empty>>))}
    \cup {Ok(JList(<<e>>)) : e \in GroupEntities(u)}
    \cup {Ok(JDict(e)) : e \in GroupEntities(u)}

\* the items of a discussions.getList page: a topic with object_id, one
\* with only id, one with no identity, one whose title is a number, one
\* whose creation_date is a number, one whose object_id is blank
Entries ==
    { [object_id |-> <<"1">>, title |-> "str"],
      [id |-> <<"2">>, creation_date |-> "str"],
      [title |-> "str"],
      [object_id |-> <<"1">>, title |-> "int"],
      [object_id |-> <<"2">>, creation_date |-> "int"],
      [object_id |-> <<" ">>] }

ListingItems == SeqsUpTo(Entries \cup {None}, MaxListing)

DiscussionsResponses ==
    FailedRoundTrips
    \cup {Ok(JNull), Ok(JDict([total |-> JNull])),
          Ok(JDict([discussions |-> JNull]))}
    \cup {Ok(JDict([discussions |-> JList(items)])) : items \in ListingItems}
    \cup {Ok(JDict([topics |-> JList(items)])) : items \in ListingItems}
    \cup {Ok(JList(items)) : items \in ListingItems}

\* the items of a discussions.getComments page
C1a == [id |-> <<"1">>, author_id |-> <<"7">>, val |-> 1]
C1b == [id |-> <<"1">>, author_id |-> <<"7">>, val |-> 2]
C2x == [id |-> <<"2">>, author_id |-> <<"x">>, val |-> 1]
C0 == [val |-> 1]
CommentPages == {<<>>, <<C1a, C1b>>, <<C2x, C0>>}

CommentsResponses ==
    FailedRoundTrips
    \cup {Ok(JNull), Ok(JDict([total |-> JNull])), Ok(JList(<<>>)),
          Ok(JDict([comments |-> JNull]))}
    \cup {Ok(JDict([comments |-> JList(page)])) : page \in CommentPages}

UsersResponses ==
    FailedRoundTrips \cup {Ok(JNull), Ok(JList(<<[uid |-> <<"7">>]>>))}

\* ------------------------------------------------------------------- state
VARIABLES
    pc,                 \* where the full_parse run stands
    group_id,           \* full_parse's group_id argument
    max_discussions,    \* full_parse's max_discussions argument
    group,              \* the Group parse_group fetched
    listing,            \* what get_discussions returned
    discussions,        \* parse_all_discussions' list, after the cap
    idx,                \* enumerate(discussions, 1)
    comments_data,      \* get_comments' page, while the authors are looked up
    comments,           \* the Comment batch get_comments returned
    total_comments,     \* parse_all_discussions' counters
    parsed_discussions,
    skipped_count,
    result,             \* what full_parse gave its caller
    db_groups,          \* the three collections
    db_discussions,
    db_comments,
    calls,              \* history: the API calls and store writes, in order
    outcomes,           \* history: how each visited discussion ended
    now,                \* time.time(), in ticks
    last_request_time,  \* OKApiClient._last_request_time
    rq,                 \* where the request() in progress stands
    sent,               \* history: the outbound HTTP calls, in order
    last_upsert,        \* history: the latest upsert_many batch, how often
                        \* it was applied in a row and the store after the
                        \* first time
    api,                \* the client method a caller runs: its arguments,
                        \* where it stands and what it gave back
    threads,            \* where each thread stands in OKApiClient.request
    cursors,            \* _last_request_time of each OKApiClient object
    issued,             \* history: the outbound calls of all the clients
    signing             \* the OKAuth object and the history of its calls

vars == <<pc, group_id, max_discussions, group, listing, discussions, idx,
          comments_data, comments, total_comments, parsed_discussions,
          skipped_count, result, db_groups, db_discussions, db_comments,
          calls, outcomes, now, last_request_time, rq, sent, last_upsert,
          api,
          threads, cursors, issued, signing>>

\* the transport's state, the repository history and the caller of the
\* client's methods, which the orchestrator's steps leave alone
transport == <<now, last_request_time, rq, sent>>
beside == <<threads, cursors, issued, signing>>
aside == <<transport, last_upsert, api, beside>>
\* the orchestrator's state, which the transport's and the repository's
\* steps leave alone
run == <<pc, group_id, max_discussions, group, listing, discussions, idx,
         comments_data, comments, total_comments, parsed_discussions,
         skipped_count, result, calls, outcomes>>

args == <<group_id, max_discussions>>
counters == <<total_comments, parsed_discussions, skipped_count>>
db == <<db_groups, db_discussions, db_comments>>
loopvars == <<listing, discussions, idx>>

\* full_parse's outcome: nothing yet, an exception (with the stage that
\* raised it) or the summary dict
NoResult == [kind |-> "none", at |-> "", group |-> Empty,
             discussions_parsed |-> 0, comments_saved |-> 0]
Raised(at) == [kind |-> "raised", at |-> at, group |-> Empty,
               discussions_parsed |-> 0, comments_saved |-> 0]
Summary(g, d, c) == [kind |-> "summary", at |-> "", group |-> g,
                     discussions_parsed |-> d, comments_saved |-> c]

\* one entry of the history: the API method or store operation, the
\* position of the discussion it is for (0 for the group stage), and what
\* came back
Call(op, i, got) == [op |-> op, i |-> i, got |-> got]

\* What the peer sent back on a call, for the history: "error" a failed
\* round trip or a body with error_code, "absent" the method's no-data
\* answers, "data" anything else.
PeerFailed(resp) ==
    \/ resp.kind # "ok"
    \/ resp.body.t = "dict" /\ "error_code" \in DOMAIN resp.body.v[1]

\* group.getInfo: null, [] and [null] name no group
GotGroup(resp) ==
    IF PeerFailed(resp) THEN "error"
    ELSE IF \/ resp.body.t = "null"
            \/ resp.body.t = "list" /\ resp.body.v = <<>>
            \/ resp.body.t = "list" /\ resp.body.v # <<>> /\ resp.body.v[1] = None
    THEN "absent"
    ELSE "data"

\* discussions.getList: null, an object with neither "discussions" nor
\* "topics", and an empty list (bare or under either key) list nothing
GotListing(resp) ==
    IF PeerFailed(resp) THEN "error"
    ELSE IF \/ resp.body.t = "null"
            \/ resp.body.t = "list" /\ resp.body.v = <<>>
            \/ /\ resp.body.t = "dict"
               /\ \/ {"discussions", "topics"} \cap DOMAIN resp.body.v[1] = {}
                  \/ \E k \in {"discussions", "topics"} \cap DOMAIN resp.body.v[1] :
                        resp.body.v[1][k] = JList(<<>>)
    THEN "absent"
    ELSE "data"

\* discussions.getComments: null, an object without "comments" and an
\* empty "comments" list carry no comment
GotComments(resp) ==
    IF PeerFailed(resp) THEN "error"
    ELSE IF \/ resp.body.t = "null"
            \/ /\ resp.body.t = "dict"
               /\ \/ "comments" \notin DOMAIN resp.body.v[1]
                  \/ resp.body.v[1].comments = JList(<<>>)
    THEN "absent"
    ELSE "data"

\* users.getInfo: null names no user
GotUsers(resp) ==
    IF PeerFailed(resp) THEN "error"
    ELSE IF resp.body.t = "null" THEN "absent"
    ELSE "data"
Outcome(i, st, n) == [i |-> i, st |-> st, count |-> n]

\* the arguments of one call of a client method (those a method does not
\* take are left at their defaults)
ApiArgs(op, g, d, count, offset, uids) ==
    [op |-> op, group_id |-> g, discussion_id |-> d, count |-> count,
     offset |-> offset, user_ids |-> uids]

\* what a client method gave its caller: nothing (yet, or it raised), a
\* list, a map or a Group
NoValue == [t |-> "none", v |-> <<>>]
ListValue(items) == [t |-> "list", v |-> items]
MapValue(users) == [t |-> "map", v |-> users]
GroupValue(g) == [t |-> "group", v |-> <<g>>]

\* a client method call: its arguments, its stage ("none", "request",
\* "users", "returned", "raised"), the transport as the call found it,
\* the comments page kept while the authors are looked up, the latest
\* round trip's answer with the stage it came in, and the value returned
ApiState(a, st, mark, page, resp, via, value) ==
    [call |-> a, st |-> st, mark |-> mark, page |-> page, resp |-> resp,
     via |-> via, value |-> value]

\* the threads of the process and the OKApiClient objects it constructed
\* (run_parser constructs one for every run)
Threads == {1, 2}
Clients == {1, 2}

\* a thread outside request(), asleep in _wait_rate_limit or waiting for
\* its round trip: the client and method of its call, the cursor value its
\* check read and when it read it, when its sleep ends, and the place of
\* its outbound call in the history
ThreadState(at, c, m, saw, began, wake, slot) ==
    [at |-> at, client |-> c, method |-> m, saw |-> saw, began |-> began,
     wake |-> wake, slot |-> slot]
IdleThread == ThreadState("idle", 1, "", 0, 0, 0, 0)

\* no OKAuth object constructed yet
NoSigning == [built |-> FALSE,
              auth |-> [client_id |-> <<"c">>, client_secret |-> Empty,
                        access_token |-> Empty, public_key |-> Empty,
                        session_key |-> Empty, session_secret_key |-> Empty],
              log |-> <<>>]

NoCall ==
    ApiState(ApiArgs("none", Empty, Empty, 0, 0, <<>>), "none",
             [sent |-> 0, cursor |-> InitialLastRequestTime, now |-> 0],
             <<>>, NetworkFailure, "none", NoValue)

Init ==
    /\ pc = "idle"
    /\ group_id = Empty
    /\ max_discussions = NoCap
    /\ group = GroupFromApi(Empty)
    /\ listing = <<>>
    /\ discussions = <<>>
    /\ idx = 0
    /\ comments_data = <<>>
    /\ comments = <<>>
    /\ total_comments = 0
    /\ parsed_discussions = 0
    /\ skipped_count = 0
    /\ result = NoResult
    /\ db_groups = <<>>
    /\ db_discussions = <<>>
    /\ db_comments = <<>>
    /\ calls = <<>>
    /\ outcomes = <<>>
    \* time.time() is far past the initial cursor: the first call never sleeps
    /\ now = RateLimitDelay + 1
    /\ last_request_time = InitialLastRequestTime
    /\ rq = "idle"
    /\ sent = <<>>
    /\ last_upsert = [batch |-> <<>>, times |-> 0, once |-> <<>>]
    /\ api = NoCall
    /\ threads = [t \in Threads |-> IdleThread]
    /\ cursors = [c \in Clients |-> InitialLastRequestTime]
    /\ issued = <<>>
    /\ signing = NoSigning

\* an exception leaves full_parse
Propagate ==
    /\ pc' = "raised"
    /\ result' = Raised(pc)

\* ---------------------------------------------------------------- full_parse
\* a caller starts full_parse(group_id, max_discussions)
FullParse(g, cap) ==
    /\ UNCHANGED aside
    /\ pc = "idle"
    /\ pc' = "parse_group"
    /\ group_id' = g
    /\ max_discussions' = cap
    /\ UNCHANGED <<group, loopvars, comments_data, comments, counters, result,
                   db, calls, outcomes>>

\* get_group_info's `groups`: the body if it is a list, else [body]
GroupsOf(body) == IF body.t = "list" THEN body.v ELSE <<body.v[1]>>

\* mutant of GroupNotFound: only the empty list is taken as not found
GroupNotFoundEmptyOnly(body) == GroupsOf(body) = <<>>

\* get_group_info lines 89-94: `response is None`, `not groups`,
\* `groups[0] is None` raise ValueError("Group ... not found")
GroupNotFound(body) ==
    \/ body.t = "null"
    \/ GroupsOf(body) = <<>>
    \/ IsNone(GroupsOf(body)[1])

\* parse_group, first half: api.get_group_info(group_id)
GetGroupInfo ==
    /\ UNCHANGED aside
    /\ pc = "parse_group"
    /\ \E resp \in GroupInfoResponses(Strip(group_id)) :
       /\ IF ~ValidGroupId(group_id)
          THEN /\ Propagate
               /\ UNCHANGED <<group, calls>>
          ELSE /\ calls' = Append(calls, Call("group.getInfo", 0, GotGroup(resp)))
               /\ IF RequestRaises(resp) \/ GroupNotFound(RequestData(resp))
                  THEN /\ Propagate
                       /\ UNCHANGED group
                  ELSE /\ group' = GroupFromApi(GroupsOf(RequestData(resp))[1])
                       /\ pc' = "group_upsert"
                       /\ UNCHANGED result
       /\ UNCHANGED <<args, loopvars, comments_data, comments, counters, db,
                      outcomes>>

\* parse_group, second half: group_repo.upsert(group) returns
GroupUpsertOk ==
    /\ UNCHANGED aside
    /\ pc = "group_upsert"
    /\ db_groups' = GroupUpsert(db_groups, group)
    /\ calls' = Append(calls, Call("groups.upsert", 0, "ok"))
    /\ pc' = "list"
    /\ UNCHANGED <<args, group, loopvars, comments_data, comments, counters,
                   result, db_discussions, db_comments, outcomes>>

\* group_repo.upsert(group) raises: the single update_one wrote nothing
GroupUpsertFails ==
    /\ UNCHANGED aside
    /\ pc = "group_upsert"
    /\ calls' = Append(calls, Call("groups.upsert", 0, "raised"))
    /\ Propagate
    /\ UNCHANGED <<args, group, loopvars, comments_data, comments, counters,
                   db, outcomes>>

\* ---------------------------------------------------- parse_all_discussions
\* OKApiClient.get_discussions, lines 190-234: the truthy items found under
\* "discussions", else under "topics", or the body itself when it is a list
CollectDiscussions(body) ==
    IF body.t = "null"
    THEN <<>>
    ELSE LET found ==
                 IF body.t = "dict"
                 THEN Get(body.v[1], "discussions",
                          Get(body.v[1], "topics", JList(<<>>)))
                 ELSE body
         IN IF found.t = "list" THEN SelectSeq(found.v, Truthy) ELSE <<>>

\* mutant of GetDiscussionsRaises: the null body is not told apart and raises
GetDiscussionsRaisesOnNull(resp) ==
    RequestRaises(resp) \/ RequestData(resp).t = "null"

\* get_discussions lines 184-234 raise only what request raises: a null
\* body, a missing key and a value that is no list all give []
GetDiscussionsRaises(resp) == RequestRaises(resp)

\* mutant of Truncate: the cap keeps the last entries of the listing
TruncateKeepsLast(list, cap) ==
    IF cap.some /\ cap.n # 0 /\ cap.n < Len(list)
    THEN SubSeq(list, Len(list) - cap.n + 1, Len(list))
    ELSE list

\* lines 121-130: `if max_discussions: discussions = discussions[:max]`
Truncate(list, cap) ==
    IF cap.some /\ cap.n # 0 THEN Prefix(list, cap.n) ELSE list

\* line 143: str(discussion.get("object_id", discussion.get("id", "")))
DiscussionId(d) == Get(d, "object_id", Get(d, "id", Empty))

\* line 144: discussion.get("title", "")[:50] if discussion.get("title"):
\* slicing a truthy title that is no str raises TypeError, outside the try
TitleReadRaises(d) == "title" \in DOMAIN d /\ d.title = "int"

\* lines 89-134: api.get_discussions(group_id) with its validation of the
\* group id (client.py lines 165-166), the empty-listing return and the cap
GetDiscussions ==
    /\ UNCHANGED aside
    /\ pc = "list"
    /\ \E resp \in DiscussionsResponses :
       /\ IF ~ValidGroupId(group_id)
          THEN /\ Propagate
               /\ UNCHANGED <<loopvars, calls>>
          ELSE
          /\ calls' = Append(calls, Call("discussions.getList", 0, GotListing(resp)))
          /\ IF GetDiscussionsRaises(resp)
             THEN /\ Propagate
                  /\ UNCHANGED loopvars
             ELSE /\ listing' = CollectDiscussions(RequestData(resp))
                  /\ IF listing' = <<>>
                     THEN /\ pc' = "done"
                          /\ result' = Summary(group.uid, 0, 0)
                          /\ UNCHANGED <<discussions, idx>>
                     ELSE /\ discussions' = Truncate(listing', max_discussions)
                          /\ idx' = 1
                          /\ pc' = "loop"
                          /\ UNCHANGED result
       /\ UNCHANGED <<args, group, comments_data, comments, counters, db,
                      outcomes>>

\* mutant of NextDiscussion: the loop takes the same discussion again
NextDiscussionAgain(st, n) ==
    /\ idx' = idx
    /\ pc' = "loop"
    /\ comments_data' = <<>>
    /\ comments' = <<>>
    /\ outcomes' = Append(outcomes, Outcome(idx, st, n))
    /\ UNCHANGED <<args, group, listing, discussions, result>>

\* the loop moves to the next discussion: after `continue`, after the
\* except clause, or at the end of the body
NextDiscussion(st, n) ==
    /\ idx' = idx + 1
    /\ pc' = "loop"
    /\ comments_data' = <<>>
    /\ comments' = <<>>
    /\ outcomes' = Append(outcomes, Outcome(idx, st, n))
    /\ UNCHANGED <<args, group, listing, discussions, result>>

\* mutant of Except: no except clause, the exception leaves the loop
ExceptPropagates ==
    /\ Propagate
    /\ UNCHANGED <<args, group, loopvars, comments_data, comments, counters,
                   outcomes>>

\* lines 192-196: the except clause of the loop body
Except ==
    /\ NextDiscussion("failed", 0)
    /\ UNCHANGED counters

\* lines 189-191: parse_discussion returned n
Parsed(n) ==
    /\ NextDiscussion("parsed", n)
    /\ total_comments' = total_comments + n
    /\ parsed_discussions' = parsed_discussions + 1
    /\ UNCHANGED skipped_count

\* lines 136-154: the loop reads the discussion's fields, outside the try
ReadDiscussion ==
    /\ UNCHANGED aside
    /\ pc = "loop"
    /\ idx <= Len(discussions)
    /\ IF TitleReadRaises(discussions[idx])
       THEN /\ Propagate
            /\ UNCHANGED <<args, group, loopvars, comments_data, comments,
                           outcomes>>
       ELSE IF ~TruthyStr(DiscussionId(discussions[idx]))
       THEN NextDiscussion("noid", 0)
       ELSE /\ pc' = "discussion_upsert"
            /\ UNCHANGED <<args, group, loopvars, comments_data, comments,
                           result, outcomes>>
    /\ UNCHANGED <<counters, db, calls>>

\* lines 198-203 and full_parse lines 216-220: the loop is over
ReturnSummary ==
    /\ UNCHANGED aside
    /\ pc = "loop"
    /\ idx > Len(discussions)
    /\ pc' = "done"
    /\ result' = Summary(group.uid, parsed_discussions, total_comments)
    /\ UNCHANGED <<args, group, loopvars, comments_data, comments, counters,
                   db, calls, outcomes>>

\* lines 178-179: Discussion.from_api and discussion_repo.upsert return
UpsertDiscussionOk ==
    /\ UNCHANGED aside
    /\ pc = "discussion_upsert"
    /\ ~DiscussionFromApiRaises(discussions[idx])
    /\ db_discussions' =
           DiscussionUpsert(db_discussions,
                            DiscussionFromApi(discussions[idx], group_id))
    /\ calls' = Append(calls, Call("discussions.upsert", idx, "ok"))
    /\ pc' = "get_comments"
    /\ UNCHANGED <<args, group, loopvars, comments_data, comments, counters,
                   result, db_groups, db_comments, outcomes>>

\* lines 178-179 raise: Discussion.from_api, or the store's update_one
\* (which then wrote nothing)
UpsertDiscussionFails ==
    /\ UNCHANGED aside
    /\ pc = "discussion_upsert"
    /\ calls' = IF DiscussionFromApiRaises(discussions[idx])
                THEN calls
                ELSE Append(calls, Call("discussions.upsert", idx, "raised"))
    /\ Except
    /\ UNCHANGED db

\* ----------------------------------------------------------- parse_discussion
\* get_comments lines 139-143 with get_users_info lines 241-243: the author
\* ids that are truthy and, stripped, all digits
ValidAuthorIds(data) ==
    {Strip(data[i].author_id) : i \in
        {j \in 1..Len(data) :
            /\ TruthyStr(Get(data[j], "author_id", Empty))
            /\ IsDigit(Strip(data[j].author_id))}}

\* get_comments lines 147-156: one Comment per item of the page
RECURSIVE NormalizeComments(_, _, _)
NormalizeComments(data, did, gid) ==
    IF data = <<>>
    THEN <<>>
    ELSE <<CommentFromApi(Head(data), did, gid)>>
         \o NormalizeComments(Tail(data), did, gid)

\* get_comments line 136: response.get("comments", []) of a body that is
\* not None
CommentsData(body) == Get(body.v[1], "comments", JList(<<>>)).v

\* mutant of CommentsDataRaises: the `response is None` test is missing,
\* so a null body raises at response.get
CommentsDataRaisesOnNull(body) ==
    \/ body.t \in {"list", "null"}
    \/ body.t = "dict" /\ Get(body.v[1], "comments", JList(<<>>)).t # "list"

\* get_comments lines 136-137 raise inside the orchestrator's try: a list
\* body has no get(), and len() of a "comments" value that is null raises
CommentsDataRaises(body) ==
    \/ body.t = "list"
    \/ body.t = "dict" /\ Get(body.v[1], "comments", JList(<<>>)).t # "list"

\* parse_discussion lines 66-68 when get_comments returned the batch:
\* return 0 for an empty batch, else go on to upsert_many
HaveComments(batch) ==
    IF batch = <<>>
    THEN /\ Parsed(0)
         /\ UNCHANGED db
    ELSE /\ comments' = batch
         /\ comments_data' = <<>>
         /\ pc' = "upsert_many"
         /\ UNCHANGED <<args, group, loopvars, counters, result, db, outcomes>>

\* parse_discussion line 56: api.get_comments up to its users lookup
\* (client.py lines 98-143)
GetComments ==
    /\ UNCHANGED aside
    /\ pc = "get_comments"
    /\ \E resp \in CommentsResponses :
       /\ IF \/ ~ValidDiscussionId(DiscussionId(discussions[idx]))
             \/ ~ValidGroupId(group_id)
          THEN /\ Except
               /\ UNCHANGED <<db, calls>>
          ELSE /\ calls' = Append(calls, Call("discussions.getComments", idx,
                                           GotComments(resp)))
               /\ IF RequestRaises(resp) \/ CommentsDataRaises(RequestData(resp))
                  THEN /\ Except
                       /\ UNCHANGED db
                  ELSE IF RequestData(resp).t = "null"
                  THEN /\ Parsed(0)
                       /\ UNCHANGED db
                  ELSE LET data == CommentsData(RequestData(resp))
                       IN IF ValidAuthorIds(data) = {}
                          THEN HaveComments(
                                   NormalizeComments(
                                       data, DiscussionId(discussions[idx]),
                                       group_id))
                          ELSE /\ comments_data' = data
                               /\ pc' = "users_info"
                               /\ UNCHANGED <<args, group, loopvars, comments,
                                              counters, result, db, outcomes>>

\* api.get_users_info's request (client.py lines 250-260) and the rest of
\* get_comments
GetUsersInfo ==
    /\ UNCHANGED aside
    /\ pc = "users_info"
    /\ \E resp \in UsersResponses :
       /\ calls' = Append(calls, Call("users.getInfo", idx, GotUsers(resp)))
       /\ IF RequestRaises(resp)
          THEN /\ Except
               /\ UNCHANGED db
          ELSE HaveComments(
                   NormalizeComments(
                       comments_data, DiscussionId(discussions[idx]), group_id))

\* parse_discussion lines 77-79: comment_repo.upsert_many returns
UpsertManyOk ==
    /\ UNCHANGED aside
    /\ pc = "upsert_many"
    /\ db_comments' = UpsertMany(db_comments, comments).coll
    /\ calls' = Append(calls, Call("comments.bulk_write", idx, "ok"))
    /\ Parsed(UpsertMany(db_comments, comments).count)
    /\ UNCHANGED <<db_groups, db_discussions>>

\* comment_repo.upsert_many raises: the ordered bulk_write stopped at its
\* operation n+1, the n operations before it are applied
UpsertManyFails(n) ==
    /\ UNCHANGED aside
    /\ pc = "upsert_many"
    /\ n < Len(comments)
    /\ db_comments' = BulkWrite(db_comments, Prefix(comments, n)).coll
    /\ calls' = Append(calls, Call("comments.bulk_write", idx, "raised"))
    /\ Except
    /\ UNCHANGED <<db_groups, db_discussions>>

\* ------------------------------------------------------------ specification
Next ==
    \/ \E g \in GroupIdInputs, cap \in Caps : FullParse(g, cap)
    \/ GetGroupInfo
    \/ GroupUpsertOk
    \/ GroupUpsertFails
    \/ GetDiscussions
    \/ ReadDiscussion
    \/ ReturnSummary
    \/ UpsertDiscussionOk
    \/ UpsertDiscussionFails
    \/ GetComments
    \/ GetUsersInfo
    \/ UpsertManyOk
    \/ \E n \in 0..MaxBatch : UpsertManyFails(n)

Spec == Init /\ [][Next]_vars

\* ------------------------------------------------ the other entry points
\* what parse_group and parse_discussion give their caller: the Group, the
\* number of comments saved
GroupResult(g) == [kind |-> "group", at |-> "", group |-> g,
                   discussions_parsed |-> 0, comments_saved |-> 0]
CountResult(n) == [kind |-> "count", at |-> "", group |-> Empty,
                   discussions_parsed |-> 0, comments_saved |-> n]

\* a caller runs parse_group(group_id) on its own: get_group_info, then
\* group_repo.upsert, which returns or raises having written nothing
ParseGroup(g, stored) ==
    /\ UNCHANGED aside
    /\ pc = "idle"
    /\ group_id' = g
    /\ \E resp \in GroupInfoResponses(Strip(g)) :
          LET found == /\ ValidGroupId(g)
                       /\ ~RequestRaises(resp)
                       /\ ~GroupNotFound(RequestData(resp))
              fetched == IF found
                         THEN GroupFromApi(GroupsOf(RequestData(resp))[1])
                         ELSE group
          IN /\ group' = fetched
             /\ db_groups' = IF found /\ stored
                              THEN GroupUpsert(db_groups, fetched)
                              ELSE db_groups
             /\ calls' =
                    calls
                    \o (IF ValidGroupId(g)
                        THEN <<Call("group.getInfo", 0, GotGroup(resp))>>
                        ELSE <<>>)
                    \o (IF found
                        THEN <<Call("groups.upsert", 0,
                                    IF stored THEN "ok" ELSE "raised")>>
                        ELSE <<>>)
             /\ pc' = IF found /\ stored THEN "done" ELSE "raised"
             /\ result' = IF found /\ stored
                           THEN GroupResult(fetched.uid)
                           ELSE Raised("parse_group")
    /\ UNCHANGED <<max_discussions, loopvars, comments_data, comments, counters,
                   db_discussions, db_comments, outcomes>>

\* a caller runs parse_all_discussions(group_id, max_discussions) on its own
ParseAllDiscussions(g, cap) ==
    /\ UNCHANGED aside
    /\ pc = "idle"
    /\ pc' = "list"
    /\ group_id' = g
    /\ max_discussions' = cap
    /\ UNCHANGED <<group, loopvars, comments_data, comments, counters, result,
                   db, calls, outcomes>>

\* a caller runs parse_discussion(discussion_id, group_id) on its own
\* (lines 56-79): get_comments with its author lookup, the return of 0 for
\* no comments, and upsert_many, whose bulk_write returns or stops at its
\* operation n+1; whatever raises reaches the caller
ParseDiscussion(d, g, n) ==
    /\ UNCHANGED aside
    /\ pc = "idle"
    /\ group_id' = g
    /\ \E resp \in CommentsResponses, users \in UsersResponses :
          LET invalid == ~ValidDiscussionId(d) \/ ~ValidGroupId(g)
              data == RequestData(resp)
              fetched == /\ ~invalid
                         /\ ~RequestRaises(resp)
                         /\ ~CommentsDataRaises(data)
              page == IF fetched /\ data.t # "null"
                      THEN CommentsData(data) ELSE <<>>
              lookup == ValidAuthorIds(page) # {}
              batch == IF lookup /\ RequestRaises(users)
                       THEN <<>> ELSE NormalizeComments(page, d, g)
              stops == n < Len(batch)
              raises == ~fetched \/ (lookup /\ RequestRaises(users)) \/ stops
          IN /\ comments' = batch
             /\ db_comments' =
                    IF stops THEN BulkWrite(db_comments, Prefix(batch, n)).coll
                    ELSE UpsertMany(db_comments, batch).coll
             /\ calls' =
                    calls
                    \o (IF invalid THEN <<>>
                        ELSE <<Call("discussions.getComments", 1,
                                    GotComments(resp))>>)
                    \o (IF lookup
                        THEN <<Call("users.getInfo", 1, GotUsers(users))>>
                        ELSE <<>>)
                    \o (IF batch # <<>>
                        THEN <<Call("comments.bulk_write", 1,
                                    IF stops THEN "raised" ELSE "ok")>>
                        ELSE <<>>)
             /\ pc' = IF raises THEN "raised" ELSE "done"
             /\ result' = IF raises THEN Raised("parse_discussion")
                           ELSE CountResult(UpsertMany(db_comments, batch).count)
    /\ UNCHANGED <<max_discussions, group, loopvars, comments_data, counters,
                   db_groups, db_discussions, outcomes>>

\* what the collections hold when a call starts: nothing, or what an
\* earlier full_parse of group 4 left (the group, its discussion 1 and the
\* comments of that discussion)
PriorStores ==
    {[groups |-> <<>>, discussions |-> <<>>, comments |-> <<>>],
     [groups |-> GroupUpsert(<<>>, GroupFromApi([uid |-> <<"4">>])),
      discussions |->
          DiscussionUpsert(<<>>, DiscussionFromApi([object_id |-> <<"1">>],
                                                   <<"4">>)),
      comments |->
          UpsertMany(<<>>, NormalizeComments(<<C1a, C1b>>, <<"1">>,
                                             <<"4">>)).coll]}

\* a freshly constructed service over collections that may hold records
InitEntry ==
    /\ pc = "idle"
    /\ group_id = Empty
    /\ max_discussions = NoCap
    /\ group = GroupFromApi(Empty)
    /\ listing = <<>>
    /\ discussions = <<>>
    /\ idx = 0
    /\ comments_data = <<>>
    /\ comments = <<>>
    /\ total_comments = 0
    /\ parsed_discussions = 0
    /\ skipped_count = 0
    /\ result = NoResult
    /\ \E prior \in PriorStores :
          /\ db_groups = prior.groups
          /\ db_discussions = prior.discussions
          /\ db_comments = prior.comments
    /\ calls = <<>>
    /\ outcomes = <<>>
    /\ now = RateLimitDelay + 1
    /\ last_request_time = InitialLastRequestTime
    /\ rq = "idle"
    /\ sent = <<>>
    /\ last_upsert = [batch |-> <<>>, times |-> 0, once |-> <<>>]
    /\ api = NoCall
    /\ threads = [t \in Threads |-> IdleThread]
    /\ cursors = [c \in Clients |-> InitialLastRequestTime]
    /\ issued = <<>>
    /\ signing = NoSigning

\* one call of any of the four entry points, max_discussions left unset,
\* and the steps of the run it starts
NextEntry ==
    \/ \E g \in GroupIdInputs : FullParse(g, NoCap)
    \/ \E g \in GroupIdInputs, stored \in BOOLEAN : ParseGroup(g, stored)
    \/ \E g \in GroupIdInputs : ParseAllDiscussions(g, NoCap)
    \/ \E d \in DiscussionIdInputs, g \in GroupIdInputs, n \in 0..MaxBatch :
          ParseDiscussion(d, g, n)
    \/ GetGroupInfo
    \/ GroupUpsertOk
    \/ GroupUpsertFails
    \/ GetDiscussions
    \/ ReadDiscussion
    \/ ReturnSummary
    \/ UpsertDiscussionOk
    \/ UpsertDiscussionFails
    \/ GetComments
    \/ GetUsersInfo
    \/ UpsertManyOk
    \/ \E n \in 0..MaxBatch : UpsertManyFails(n)

SpecEntry == InitEntry /\ [][NextEntry]_vars

\* ------------------------------------------- the comment repository alone
\* the Comment objects callers hand to upsert_many: the items of the
\* comment pages normalised for discussion 1, and one of them for
\* discussion 2 as well
RepoComments ==
    {CommentFromApi(c, <<"1">>, <<"4">>) : c \in {C1a, C1b, C2x, C0}}
    \cup {CommentFromApi(C1a, <<"2">>, <<"4">>)}

RepoBatches == SeqsUpTo(RepoComments, MaxBatch)

\* a caller runs comment_repo.upsert_many(batch) on the shared collection
RepoUpsertMany(batch) ==
    /\ last_upsert.times < MaxUpserts
    /\ db_comments' = UpsertMany(db_comments, batch).coll
    /\ last_upsert' =
           IF last_upsert.times > 0 /\ batch = last_upsert.batch
           THEN [last_upsert EXCEPT !.times = @ + 1]
           ELSE [batch |-> batch, times |-> 1, once |-> db_comments']
    /\ UNCHANGED <<run, db_groups, db_discussions, transport, api, beside>>

NextRepo == \E batch \in RepoBatches : RepoUpsertMany(batch)

SpecRepo == Init /\ [][NextRepo]_vars

\* ------------------------------------------- the three repositories together
\* the Groups, Discussions and Comment batches callers hand to the
\* repositories: two uids, two discussion ids under two group ids, and the
\* comment pages normalised for two discussions
StoreGroups == {GroupFromApi(e) : e \in GroupEntities(<<"4">>)}

StoreDiscussions ==
    {DiscussionFromApi(e, g) :
        e \in {[object_id |-> <<"1">>], [id |-> <<"2">>]},
        g \in {<<"4">>, <<"7">>}}

StoreBatches ==
    {NormalizeComments(page, d, <<"4">>) :
        page \in CommentPages, d \in {<<"1">>, <<"2">>}}

\* a caller runs group_repo.upsert(group)
RepoGroupUpsert(g) ==
    /\ db_groups' = GroupUpsert(db_groups, g)
    /\ UNCHANGED <<run, db_discussions, db_comments, transport, last_upsert, beside,
                   api>>

\* a caller runs discussion_repo.upsert(discussion)
RepoDiscussionUpsert(d) ==
    /\ db_discussions' = DiscussionUpsert(db_discussions, d)
    /\ UNCHANGED <<run, db_groups, db_comments, transport, last_upsert, beside, api>>

NextStore ==
    \/ \E g \in StoreGroups : RepoGroupUpsert(g)
    \/ \E d \in StoreDiscussions : RepoDiscussionUpsert(d)
    \/ \E batch \in StoreBatches : RepoUpsertMany(batch)

SpecStore == Init /\ [][NextStore]_vars

\* ------------------------------------------------------ the transport alone
\* the round trips a request() can meet
RoundTrips ==
    FailedRoundTrips \cup {Ok(JNull), Ok(JDict([uid |-> <<"4">>]))}

\* time passes: between calls, while a call waits to be sent and while it
\* is in flight
Tick ==
    /\ now < MaxTime
    /\ now' = now + 1
    /\ UNCHANGED <<last_request_time, rq, sent, last_upsert, beside, run, db, api>>

\* request() line 43: _wait_rate_limit() reads the clock and sleeps
RequestWait ==
    /\ rq = "idle"
    /\ Len(sent) < MaxCalls
    /\ now + SleepTime(now - last_request_time) <= MaxTime
    /\ now' = now + SleepTime(now - last_request_time)
    /\ rq' = "ready"
    /\ UNCHANGED <<last_request_time, sent, last_upsert, beside, run, db, api>>

\* request() line 52: requests.get issues the outbound call
RequestSend ==
    /\ rq = "ready"
    /\ sent' = Append(sent, [at |-> now, kind |-> "inflight", raised |-> FALSE,
                             before |-> last_request_time,
                             after |-> last_request_time])
    /\ rq' = "inflight"
    /\ UNCHANGED <<now, last_request_time, last_upsert, beside, run, db, api>>

\* request() lines 52-74: the round trip ends, line 54 sets the cursor
\* when raise_for_status() passed, and request returns or raises
RoundTripEnds(resp) ==
    /\ rq = "inflight"
    /\ last_request_time' =
           IF ReachesCursorUpdate(resp) THEN now ELSE last_request_time
    /\ sent' = [sent EXCEPT ![Len(sent)] =
                   [@ EXCEPT !.kind = resp.kind,
                             !.raised = RequestRaises(resp),
                             !.after = last_request_time']]
    /\ rq' = "idle"
    /\ UNCHANGED now

\* a request() made on its own ends
RequestEnd ==
    /\ \E resp \in RoundTrips : RoundTripEnds(resp)
    /\ UNCHANGED <<last_upsert, beside, run, db, api>>

NextRate ==
    \/ Tick
    \/ RequestWait
    \/ RequestSend
    \/ RequestEnd

SpecRate == Init /\ [][NextRate]_vars

\* ------------------------------------------ several clients, several threads
\* two of the API methods the client's methods request: the group stage's
\* and the last of the loop's
Methods == {"group.getInfo", "users.getInfo"}

\* the round trips of the threads: here every one returns a 2xx status
\* (those that fail are the transport's own, above)
ThreadRoundTrips == {Ok(JNull)}

\* time passes while threads sleep and wait
ThreadsTick ==
    /\ now < LastTick
    /\ Tick

\* mutant of WakeTime: the check never sleeps
WakeTimeNow(clock, cursor) == clock

\* _wait_rate_limit, lines 34-36: when the time.sleep of a check that read
\* the clock and the cursor is over
WakeTime(clock, cursor) == clock + SleepTime(clock - cursor)

\* the calls begun so far: those sent and those asleep before their send
Begun == Len(issued) + Cardinality({t \in Threads : threads[t].at = "asleep"})

\* thread t calls request(m) on client c; line 43: _wait_rate_limit reads
\* the clock and the client's own cursor and goes to sleep
ThreadWait(t, c, m) ==
    /\ threads[t].at = "idle"
    /\ Begun < MaxCalls
    /\ threads' = [threads EXCEPT ![t] =
                       ThreadState("asleep", c, m, cursors[c], now,
                                   WakeTime(now, cursors[c]), 0)]
    /\ UNCHANGED <<cursors, issued, signing, transport, last_upsert, run, db,
                   api>>

\* line 52: the sleep is over and requests.get issues the outbound call
ThreadSend(t) ==
    /\ threads[t].at = "asleep"
    /\ now >= threads[t].wake
    /\ issued' = Append(issued, [thread |-> t,
                                 client |-> threads[t].client,
                                 method |-> threads[t].method,
                                 at |-> now,
                                 saw |-> threads[t].saw,
                                 began |-> threads[t].began,
                                 ended |-> FALSE, ok |-> FALSE, wrote |-> 0])
    /\ threads' = [threads EXCEPT ![t].at = "inflight",
                                  ![t].slot = Len(issued) + 1]
    /\ UNCHANGED <<cursors, signing, transport, last_upsert, run, db, api>>

\* lines 52-74: the round trip ends and line 54 sets the cursor of the
\* thread's client when raise_for_status() passed
ThreadEnd(t, resp) ==
    /\ threads[t].at = "inflight"
    /\ cursors' = IF ReachesCursorUpdate(resp)
                  THEN [cursors EXCEPT ![threads[t].client] = now]
                  ELSE cursors
    /\ issued' = [issued EXCEPT ![threads[t].slot] =
                     [@ EXCEPT !.ended = TRUE,
                               !.ok = ReachesCursorUpdate(resp),
                               !.wrote = IF ReachesCursorUpdate(resp)
                                         THEN now ELSE 0]]
    /\ threads' = [threads EXCEPT ![t].at = "idle"]
    /\ UNCHANGED <<signing, transport, last_upsert, run, db, api>>

\* the first thread keeps to the first client, the second uses either:
\* the same object, or the one another run constructed
NextThreads ==
    \/ ThreadsTick
    \/ \E t \in Threads :
          \E c \in {k \in Clients : k <= t}, m \in Methods : ThreadWait(t, c, m)
    \/ \E t \in Threads : ThreadSend(t)
    \/ \E t \in Threads, resp \in ThreadRoundTrips : ThreadEnd(t, resp)

SpecThreads == Init /\ [][NextThreads]_vars

\* --------------------------------------------------------- request signing
\* A dict is its keys in insertion order and its mapping.  d[k] = v keeps
\* the place of a key the dict has and puts a new key last.
DictSet(d, k, v) ==
    [keys |-> IF k \in DOMAIN d.val THEN d.keys ELSE Append(d.keys, k),
     val |-> [x \in DOMAIN d.val \cup {k} |-> IF x = k THEN v ELSE d.val[x]]]

\* the parameter names in use, in the order str comparison puts them
KeyOrder == <<"access_token", "application_key", "fields", "format", "method",
              "session_key", "sig", "uids">>

\* mutant of SortedKeys: the items are taken in insertion order
InsertionKeys(d) == d.keys

\* generate_sig line 33: sorted(params.items()), by key
SortedKeys(d) == SelectSeq(KeyOrder, LAMBDA k : k \in DOMAIN d.val)

\* generate_sig line 34: "".join(f"{k}={v}" ...) over the keys in order
RECURSIVE ParamsStr(_, _)
ParamsStr(d, ks) ==
    IF ks = <<>> THEN <<>>
    ELSE <<Head(ks), "=">> \o d.val[Head(ks)] \o ParamsStr(d, Tail(ks))

\* hashlib.md5(s.encode("utf-8")).hexdigest().lower(): the digest of s,
\* taken to be free of collisions
Md5(s) == <<"md5(">> \o s \o <<")">>

\* mutant of SecretKey: the access token is preferred to the session key
SecretKeyTokenFirst(a) ==
    IF TruthyStr(a.session_secret_key) THEN a.session_secret_key
    ELSE IF TruthyStr(a.access_token) THEN Md5(a.access_token \o a.client_secret)
    ELSE Md5(a.session_key \o a.client_secret)

\* generate_sig lines 26-31 with _calc_secret lines 39-41
SecretKey(a) ==
    IF TruthyStr(a.session_secret_key) THEN a.session_secret_key
    ELSE IF TruthyStr(a.session_key) THEN Md5(a.session_key \o a.client_secret)
    ELSE Md5(a.access_token \o a.client_secret)

\* OKAuth.generate_sig
GenerateSig(a, d) == Md5(ParamsStr(d, SortedKeys(d)) \o SecretKey(a))

\* OKAuth.application_key: self._public_key or self._client_id
ApplicationKey(a) == IF TruthyStr(a.public_key) THEN a.public_key ELSE a.client_id

\* OKAuth.sign_params: a copy of params with application_key, sig over
\* the copy so far, and one credential
SignParams(a, d) ==
    LET keyed == DictSet(d, "application_key", ApplicationKey(a))
        signed == DictSet(keyed, "sig", GenerateSig(a, keyed))
    IN IF TruthyStr(a.session_key)
       THEN DictSet(signed, "session_key", a.session_key)
       ELSE IF TruthyStr(a.access_token)
       THEN DictSet(signed, "access_token", a.access_token)
       ELSE signed

\* mutant of RequestParams: no copy is taken, the caller's dict is written
RequestParamsInPlace(method, params) ==
    LET mine == DictSet(DictSet(params, "method", method), "format", <<"json">>)
    IN [mine |-> mine, callers |-> mine]

\* request lines 45-47: a copy of the caller's params with method and
\* format set; the caller's own dict is the other object
RequestParams(method, params) ==
    [mine |-> DictSet(DictSet(params, "method", method), "format", <<"json">>),
     callers |-> params]

\* the credentials an OKAuth is constructed with: client_id, and each of
\* the others set or left empty
Auths ==
    [client_id : {<<"c">>}, client_secret : {Empty, <<"s">>},
     access_token : {Empty, <<"t">>}, public_key : {Empty, <<"p">>},
     session_key : {Empty, <<"k">>}, session_secret_key : {Empty, <<"x">>}]

\* the params callers pass: none, one mapping in its two insertion orders,
\* and one that carries method and format itself
ParamInputs ==
    LET none == [keys |-> <<>>, val |-> [x \in {} |-> <<>>]]
        uids == DictSet(none, "uids", <<"1">>)
        fields == DictSet(none, "fields", <<"f">>)
    IN {none,
        DictSet(uids, "fields", <<"f">>),
        DictSet(fields, "uids", <<"1">>),
        DictSet(DictSet(uids, "method", <<"x">>), "format", <<"xml">>)}

\* OKAuth.__init__
Construct(a) ==
    /\ ~signing.built
    /\ signing' = [built |-> TRUE, auth |-> a, log |-> <<>>]
    /\ UNCHANGED <<threads, cursors, issued, transport, last_upsert, run, db,
                   api>>

\* a signing call ends: the history gets what the caller passed and holds
\* afterwards, the dict that was signed, the result and the credentials
\* the object holds now
Signed(op, method, params, after, over) ==
    /\ signing.built
    /\ Len(signing.log) < MaxSignings
    /\ signing' =
           [signing EXCEPT !.log =
               Append(@, [op |-> op, method |-> method, params |-> params,
                          after |-> after, over |-> over,
                          out |-> SignParams(signing.auth, over),
                          auth |-> signing.auth])]
    /\ UNCHANGED <<threads, cursors, issued, transport, last_upsert, run, db,
                   api>>

\* request(method, params) up to line 49
RequestSigns(method, params) ==
    Signed("request", method, params, RequestParams(method, params).callers,
           RequestParams(method, params).mine)

\* a caller runs sign_params(params)
SignParamsCall(params) == Signed("sign_params", Empty, params, params, params)

NextSign ==
    \/ \E a \in Auths : Construct(a)
    \/ \E m \in Methods, params \in ParamInputs : RequestSigns(<<m>>, params)
    \/ \E params \in ParamInputs : SignParamsCall(params)

SpecSign == Init /\ [][NextSign]_vars

\* ------------------------------------------------------ the client's methods
\* get_comments / get_discussions: `count: int = 100`
DefaultCount == 100
\* get_comments / get_discussions: `count > 1000` is refused
MaxCount == 1000

GetGroupInfoCall(g) == ApiArgs("get_group_info", g, Empty, DefaultCount, 0, <<>>)
GetDiscussionsCall(g, count, offset) ==
    ApiArgs("get_discussions", g, Empty, count, offset, <<>>)
GetCommentsCall(d, g, count, offset) ==
    ApiArgs("get_comments", g, d, count, offset, <<>>)
GetUsersInfoCall(uids) ==
    ApiArgs("get_users_info", Empty, Empty, DefaultCount, 0, uids)
RequestCall == ApiArgs("request", Empty, Empty, DefaultCount, 0, <<>>)

\* the arguments callers pass: every group id, discussion id, count and
\* offset of interest with the other arguments valid, and some calls with
\* two arguments invalid at once
CountInputs == {0, 1, MaxCount, MaxCount + 1}
OffsetInputs == {-1, 0}
UserIdInputs == {<<>>, <<Empty, <<"x">>>>, <<<<"7">>>>}

ApiCalls ==
    {GetGroupInfoCall(g) : g \in GroupIdInputs}
    \cup {GetDiscussionsCall(g, DefaultCount, 0) : g \in GroupIdInputs}
    \cup {GetDiscussionsCall(<<"4">>, c, o) : c \in CountInputs, o \in OffsetInputs}
    \cup {GetCommentsCall(d, g, DefaultCount, 0) :
              d \in DiscussionIdInputs, g \in GroupIdInputs}
    \cup {GetCommentsCall(<<"1">>, <<"4">>, c, o) :
              c \in CountInputs, o \in OffsetInputs}
    \cup {GetUsersInfoCall(u) : u \in UserIdInputs}
    \cup {RequestCall}

\* mutant of ArgsRaise: the range checks of count and offset are missing
ArgsRaiseIdsOnly(a) ==
    CASE a.op \in {"get_group_info", "get_discussions"} ->
             ~ValidGroupId(a.group_id)
      [] a.op = "get_comments" ->
             ~ValidDiscussionId(a.discussion_id) \/ ~ValidGroupId(a.group_id)
      [] OTHER -> FALSE

\* the validation at the head of get_group_info (lines 78-79), get_comments
\* (lines 109-116) and get_discussions (lines 165-170): does it raise
\* ValueError
ArgsRaise(a) ==
    CASE a.op = "get_group_info" -> ~ValidGroupId(a.group_id)
      [] a.op = "get_discussions" ->
             \/ ~ValidGroupId(a.group_id)
             \/ a.count < 1 \/ a.count > MaxCount
             \/ a.offset < 0
      [] a.op = "get_comments" ->
             \/ ~ValidDiscussionId(a.discussion_id)
             \/ ~ValidGroupId(a.group_id)
             \/ a.count < 1 \/ a.count > MaxCount
             \/ a.offset < 0
      [] OTHER -> FALSE

\* get_users_info lines 237-243: the ids that are truthy and, stripped, all
\* digits
MaxUserIds == 100

ValidUserIds(uids) ==
    SelectSeq(uids, LAMBDA u : TruthyStr(u) /\ IsDigit(Strip(u)))

\* mutant of UidsParam: the list is sent whole
UidsParamUncapped(uids) == ValidUserIds(uids)

\* get_users_info lines 245-248: at most 100 of the valid ids are sent
UidsParam(uids) == Prefix(ValidUserIds(uids), MaxUserIds)

\* get_users_info lines 259-260: the entries of the answer that carry a uid
UsersMap(body) ==
    SelectSeq(GroupsOf(body), LAMBDA u : TruthyStr(Get(u, "uid", Empty)))

\* bodies that carry error_code below their top level
NestedErrorBodies ==
    {JList(<<[error_code |-> "100", error_msg |-> "PARAM"]>>),
     JDict([result |-> JDict([error_code |-> "100", error_msg |-> "PARAM"])])}

\* the round trips the call in progress can meet
ApiResponses(s) ==
    CASE s.st = "users" -> UsersResponses
      [] s.call.op = "get_group_info" -> GroupInfoResponses(Strip(s.call.group_id))
      [] s.call.op = "get_discussions" -> DiscussionsResponses
      [] s.call.op = "get_comments" -> CommentsResponses
      [] s.call.op = "get_users_info" -> UsersResponses
      [] OTHER -> RoundTrips \cup {Ok(b) : b \in NestedErrorBodies}

\* a caller calls a client method: the validation raises, or the method
\* returns without a request (get_users_info with no valid id), or it goes
\* on to request()
ApiCall(a) ==
    /\ rq = "idle"
    /\ api.st \in {"none", "returned", "raised"}
    /\ Len(sent) < MaxCalls
    /\ LET mark == [sent |-> Len(sent), cursor |-> last_request_time,
                    now |-> now]
           to(st, value) ==
               ApiState(a, st, mark, <<>>, NetworkFailure, "none", value)
       IN api' = IF ArgsRaise(a)
                 THEN to("raised", NoValue)
                 ELSE IF a.op = "get_users_info" /\ UidsParam(a.user_ids) = <<>>
                 THEN to("returned", MapValue(<<>>))
                 ELSE to("request", NoValue)
    /\ UNCHANGED <<transport, last_upsert, beside, run, db>>

\* the method in progress calls request(): _wait_rate_limit
ApiRequest ==
    /\ api.st \in {"request", "users"}
    /\ RequestWait

\* what the method does with the answer of its request(): the stage, the
\* page kept and the value returned
AfterRequest(s, resp) ==
    LET data == RequestData(resp)
        a == s.call
        to(st, page, value) ==
            ApiState(a, st, s.mark, page, resp, s.st, value)
        raised == to("raised", <<>>, NoValue)
    IN
    IF RequestRaises(resp) THEN raised
    ELSE IF s.st = "users"
    THEN to("returned", <<>>,
            ListValue(NormalizeComments(s.page, a.discussion_id, a.group_id)))
    ELSE CASE a.op = "get_group_info" ->
                  IF GroupNotFound(data) THEN raised
                  ELSE to("returned", <<>>,
                          GroupValue(GroupFromApi(GroupsOf(data)[1])))
           [] a.op = "get_discussions" ->
                  IF GetDiscussionsRaises(resp) THEN raised
                  ELSE to("returned", <<>>, ListValue(CollectDiscussions(data)))
           [] a.op = "get_comments" ->
                  IF CommentsDataRaises(data) THEN raised
                  ELSE IF data.t = "null" THEN to("returned", <<>>, ListValue(<<>>))
                  ELSE IF ValidAuthorIds(CommentsData(data)) = {}
                  THEN to("returned", <<>>,
                          ListValue(NormalizeComments(CommentsData(data),
                                                      a.discussion_id, a.group_id)))
                  ELSE to("users", CommentsData(data), NoValue)
           [] a.op = "get_users_info" ->
                  IF data.t = "null" THEN to("returned", <<>>, MapValue(<<>>))
                  ELSE to("returned", <<>>, MapValue(UsersMap(data)))
           [] OTHER -> to("returned", <<>>, [t |-> "data", v |-> <<data>>])

\* the round trip of the method's request() ends and the method goes on
ApiRequestEnd ==
    /\ api.st \in {"request", "users"}
    /\ rq = "inflight"
    /\ \E resp \in ApiResponses(api) :
          /\ RoundTripEnds(resp)
          /\ api' = AfterRequest(api, resp)
    /\ UNCHANGED <<last_upsert, beside, run, db>>

NextClient ==
    \/ \E a \in ApiCalls : ApiCall(a)
    \/ ApiRequest
    \/ RequestSend
    \/ ApiRequestEnd

SpecClient == Init /\ [][NextClient]_vars

\* ===================================================================== claims
LoopStages == {"loop", "discussion_upsert", "get_comments", "users_info",
               "upsert_many"}
GuardedStages == LoopStages \ {"loop"}

RECURSIVE SumCounts(_)
SumCounts(os) == IF os = <<>> THEN 0 ELSE Head(os).count + SumCounts(Tail(os))

ParsedOutcomes == SelectSeq(outcomes, LAMBDA o : o.st = "parsed")

\* the summary of a run over a non-empty listing counts the discussions
\* whose steps all succeeded and sums their bulk-upsert counts
C1_SummaryCounts ==
    (pc = "done" /\ discussions # <<>>) =>
        /\ Len(outcomes) = Len(discussions)
        /\ result.kind = "summary"
        /\ result.discussions_parsed = Len(ParsedOutcomes)
        /\ result.comments_saved = SumCounts(ParsedOutcomes)

\* a step of the four guarded stages never ends the run, and one that
\* raises leaves the counters alone and moves to the next discussion
C1_FailureStep ==
    (pc \in GuardedStages) =>
        /\ pc' # "raised"
        /\ result' = result
        /\ (Len(outcomes') > Len(outcomes)
            /\ outcomes'[Len(outcomes')].st = "failed") =>
               /\ pc' = "loop"
               /\ idx' = idx + 1
               /\ counters' = counters

\* C1: a discussion whose Discussion upsert, comment fetch, author lookup or
\* bulk upsert raises does not abort the run: the step that raises leaves
\* the counters alone and hands the loop the next discussion, no step of
\* these stages ends the run with an exception, and the summary counts
\* exactly the discussions whose steps all succeeded and sums their
\* bulk-upsert counts.
C1_FailureIsolated == [](C1_SummaryCounts) /\ [][C1_FailureStep]_vars

\* C1 witness: a run that ended with its summary after a discussion failed
\* and a later one saved comments
C1_Witness ==
    /\ pc = "done"
    /\ result.comments_saved > 0
    /\ \E j, k \in 1..Len(outcomes) :
          /\ j < k
          /\ outcomes[j].st = "failed"
          /\ outcomes[k].st = "parsed"
          /\ outcomes[k].count > 0

\* C2: with a cap M, 0 <= M < L, exactly the first M discussions of the
\* listing are processed and the other L-M cause no call and no write.
C2_CapKeepsFirstM ==
    (/\ pc \in LoopStages \cup {"done"}
     /\ max_discussions.some
     /\ max_discussions.n >= 0
     /\ max_discussions.n < Len(listing)) =>
        /\ discussions = Prefix(listing, max_discussions.n)
        /\ \A n \in 1..Len(calls) : calls[n].i <= max_discussions.n

\* the group stage failed before the Group was built: invalid group id,
\* failed round trip, API error or group not found
GroupLookupFailed ==
    \/ pc \notin {"idle", "parse_group"} /\ ~ValidGroupId(group_id)
    \/ \E n \in 1..Len(calls) :
          /\ calls[n].op = "group.getInfo"
          /\ calls[n].got \in {"error", "absent"}

\* C6: when the group stage fails (invalid group id, failed round trip,
\* API error or group not found) full_parse raises, no call follows
\* group.getInfo and no collection holds a record.
C6_GroupFailureIsFatal ==
    GroupLookupFailed =>
        /\ pc = "raised"
        /\ result.kind = "raised"
        /\ \A n \in 1..Len(calls) : calls[n].op = "group.getInfo"
        /\ db_groups = <<>>
        /\ db_discussions = <<>>
        /\ db_comments = <<>>

\* C6 witness: the lookup answered that there is no such group and the
\* run ended with the exception
C6_Witness ==
    /\ pc = "raised"
    /\ ValidGroupId(group_id)
    /\ calls = <<Call("group.getInfo", 0, "absent")>>

\* C7: full_parse raises only when the group stage failed: once the Group
\* is upserted every later failure ends in a summary.
C7_OnlyGroupStageRaises ==
    pc = "raised" => result.at \in {"parse_group", "group_upsert"}

\* the place of an operation in the order of a run
StageRank(op) ==
    CASE op = "group.getInfo" -> 1
      [] op = "groups.upsert" -> 2
      [] op = "discussions.getList" -> 3
      [] op = "discussions.upsert" -> 4
      [] op = "discussions.getComments" -> 5
      [] op = "users.getInfo" -> 6
      [] op = "comments.bulk_write" -> 7

Before(op, i, got, q) ==
    \E p \in 1..(q - 1) :
        calls[p].op = op /\ calls[p].i = i /\ calls[p].got = got

\* C8: the steps of a run are ordered: Group upsert, then the listing,
\* then the discussions one at a time in listing order, each with its
\* Discussion upsert before its getComments before its users.getInfo
\* before its bulk upsert.
C8_StepOrder ==
    /\ \A p \in 1..(Len(calls) - 1) :
          /\ calls[p].i <= calls[p + 1].i
          /\ calls[p].i = calls[p + 1].i =>
                StageRank(calls[p].op) < StageRank(calls[p + 1].op)
    /\ \A q \in 1..Len(calls) :
          /\ (calls[q].i = 0) <=> (StageRank(calls[q].op) <= 3)
          /\ calls[q].op = "discussions.getList" =>
                Before("groups.upsert", 0, "ok", q)
          /\ calls[q].i > 0 => Before("discussions.getList", 0, "data", q)
          /\ calls[q].op = "discussions.getComments" =>
                Before("discussions.upsert", calls[q].i, "ok", q)
          /\ calls[q].op = "users.getInfo" =>
                Before("discussions.getComments", calls[q].i, "data", q)
          /\ calls[q].op = "comments.bulk_write" =>
                Before("discussions.getComments", calls[q].i, "data", q)
          /\ (calls[q].op = "discussions.upsert" /\ calls[q].got = "ok") =>
                \E d \in 1..Len(db_discussions) :
                    db_discussions[d].id = DiscussionId(listing[calls[q].i])
    /\ pc \in LoopStages =>
          /\ discussions = Prefix(listing, Len(discussions))
          /\ \A n \in 1..Len(outcomes) : outcomes[n].i = n
          /\ idx = Len(outcomes) + 1

\* C8 witness: a run that took two discussions through all four steps
C8_Witness ==
    /\ pc = "done"
    /\ \E a, b \in 1..Len(calls) :
          /\ calls[a] = Call("comments.bulk_write", 1, "ok")
          /\ calls[b] = Call("users.getInfo", 2, "data")
    /\ calls[Len(calls)] = Call("comments.bulk_write", 2, "ok")
    /\ DiscussionId(listing[1]) # DiscussionId(listing[2])

\* the positions of the discussions that had no resolvable identity
NoIdAt == {outcomes[n].i : n \in {m \in 1..Len(outcomes) : outcomes[m].st = "noid"}}

\* C9: a discussion with no resolvable identity gets no Discussion record
\* and no call, and raises the skipped count by one.
C9_NoIdentityCountedSkipped ==
    /\ skipped_count = Cardinality(NoIdAt)
    /\ \A n \in 1..Len(calls) : calls[n].i \notin NoIdAt

\* C10: an empty or absent listing (null body, neither key, empty list)
\* ends parse_all_discussions with (0, 0): no exception, no further call,
\* no Discussion or Comment written, and full_parse's summary holds 0 and 0.
C10_EmptyListingEndsRun ==
    \A n \in 1..Len(calls) :
        (calls[n].op = "discussions.getList" /\ calls[n].got = "absent") =>
            /\ n = Len(calls)
            /\ pc = "done"
            /\ result = Summary(group.uid, 0, 0)
            /\ db_discussions = <<>>
            /\ db_comments = <<>>

\* C10 witness: the listing call answered with nothing and the run is over
C10_Witness ==
    /\ pc = "done"
    /\ calls # <<>>
    /\ calls[Len(calls)] = Call("discussions.getList", 0, "absent")
    /\ result.kind = "summary"

Ids(coll) == {coll[n].id : n \in 1..Len(coll)}

LastWithId(batch, id) ==
    batch[CHOOSE n \in 1..Len(batch) :
              /\ batch[n].id = id
              /\ \A m \in (n + 1)..Len(batch) : batch[m].id # id]

\* C3: upsert_many with the same batch twice in a row leaves the ids of
\* the collection as they were after the first time, one record per id,
\* and every record of the batch's ids equal to its last item with that id.
C3_UpsertManyIdempotent ==
    last_upsert.times = 2 =>
        /\ Ids(db_comments) = Ids(last_upsert.once)
        /\ Len(db_comments) = Cardinality(Ids(db_comments))
        /\ Len(db_comments) = Len(last_upsert.once)
        /\ \A n \in 1..Len(db_comments) :
              db_comments[n].id \in Ids(last_upsert.batch) =>
                  db_comments[n] = LastWithId(last_upsert.batch, db_comments[n].id)

\* C3 witness: a batch holding one id twice with different values was
\* upserted twice in a row over a collection that already held that id
C3_Witness ==
    /\ last_upsert.times = 2
    /\ Len(last_upsert.batch) = 2
    /\ last_upsert.batch[1].id = last_upsert.batch[2].id
    /\ last_upsert.batch[1] # last_upsert.batch[2]
    /\ Len(db_comments) = 2

\* the n-th outbound call got a 2xx answer (raise_for_status() passed)
PassedStatus(n) == sent[n].kind \in {"ok", "badjson"}

\* C4, for any outcome of the calls: any two successive outbound calls are
\* at least rate_limit_delay apart.
C4_AnyCallsSpaced ==
    \A n \in 1..(Len(sent) - 1) : sent[n + 1].at - sent[n].at >= RateLimitDelay

\* C4, after a 2xx answer: an outbound call that follows one whose round
\* trip passed raise_for_status() is issued at least rate_limit_delay after
\* it, so N calls whose round trips all passed span at least
\* (N-1) * rate_limit_delay.
C4_CallsSpacedAfterSuccess ==
    /\ \A n \in 1..(Len(sent) - 1) :
          PassedStatus(n) => sent[n + 1].at - sent[n].at >= RateLimitDelay
    /\ (\A n \in 1..(Len(sent) - 1) : PassedStatus(n)) =>
          (Len(sent) > 0 =>
              sent[Len(sent)].at - sent[1].at >= (Len(sent) - 1) * RateLimitDelay)

\* C4 witness: three calls, the first two answered 2xx, the second sent as
\* soon as the limit allowed
C4_Witness ==
    /\ Len(sent) = 3
    /\ PassedStatus(1)
    /\ PassedStatus(2)
    /\ sent[2].at - sent[1].at = RateLimitDelay

\* C5: a call that ends in a failure (non-2xx status, network failure,
\* undecodable body, body with error_code) leaves the cursor unchanged.
C5_RaiseLeavesCursor ==
    \A n \in 1..Len(sent) : sent[n].raised => sent[n].after = sent[n].before

\* the arguments the validation is to refuse: an empty or non-numeric group
\* id, an empty discussion id, a count outside 1..1000, a negative offset
InvalidArgs(a) ==
    \/ /\ a.op \in {"get_group_info", "get_discussions", "get_comments"}
       /\ a.group_id = Empty \/ \E n \in 1..Len(Strip(a.group_id)) :
                                    Strip(a.group_id)[n] \notin Digits
    \/ a.op = "get_comments" /\ a.discussion_id = Empty
    \/ /\ a.op \in {"get_discussions", "get_comments"}
       /\ a.count \notin 1..1000 \/ a.offset < 0

\* C11: get_group_info, get_discussions and get_comments called with an
\* empty or non-numeric group id, an empty discussion id, a count outside
\* 1..1000 or a negative offset raise before any outbound call: no HTTP
\* request is issued, no rate-limit wait occurs (the clock stands where
\* the call found it) and the cursor is unchanged.
C11_ValidationBeforeCall ==
    InvalidArgs(api.call) =>
        /\ api.st = "raised"
        /\ rq = "idle"
        /\ Len(sent) = api.mark.sent
        /\ now = api.mark.now
        /\ last_request_time = api.mark.cursor

\* C11 witness: right after a call that was answered, when a request would
\* have to wait, get_comments is called with count 1001 and raises
C11_Witness ==
    /\ api.st = "raised"
    /\ api.call.op = "get_comments"
    /\ api.call.count = MaxCount + 1
    /\ Len(sent) > 0
    /\ last_request_time = now

\* does a decoded body carry error_code, at its top level, in an item of a
\* list body or in an object under one of its keys
ContainsErrorCode(body) ==
    \/ /\ body.t = "dict"
       /\ \/ "error_code" \in DOMAIN body.v[1]
          \/ \E k \in DOMAIN body.v[1] :
                /\ DOMAIN body.v[1][k] = {"t", "v"}
                /\ body.v[1][k].t = "dict"
                /\ "error_code" \in DOMAIN body.v[1][k].v[1]
    \/ /\ body.t = "list"
       /\ \E n \in 1..Len(body.v) : "error_code" \in DOMAIN body.v[n]

\* C13: for every decoded body that contains error_code anywhere in it,
\* request fails with OKApiError and returns no data to the caller.
C13_ErrorCodeAnywhereRaises ==
    (/\ api.call.op = "request"
     /\ api.st \in {"returned", "raised"}
     /\ api.resp.kind = "ok"
     /\ ContainsErrorCode(api.resp.body)) =>
        /\ api.st = "raised"
        /\ api.value = NoValue

\* C14: on a null body request returns without raising, and get_comments
\* returns an empty list, get_discussions an empty list and get_users_info
\* an empty map, none of them raising (a null answer to the author lookup
\* inside get_comments leaves get_comments with its page of comments).
C14_NullBodyIsNoData ==
    (api.st \in {"returned", "raised"} /\ api.via # "none"
     /\ api.resp = Ok(JNull)) =>
        /\ ~sent[Len(sent)].raised
        /\ api.call.op \in {"get_comments", "get_discussions",
                            "get_users_info", "request"} => api.st = "returned"
        /\ (api.call.op = "get_comments" /\ api.via = "request") =>
              api.value = ListValue(<<>>)
        /\ (api.call.op = "get_comments" /\ api.via = "users") =>
              /\ api.value.t = "list"
              /\ Len(api.value.v) > 0
        /\ api.call.op = "get_discussions" => api.value = ListValue(<<>>)
        /\ api.call.op = "get_users_info" => api.value = MapValue(<<>>)
        /\ api.call.op = "request" => api.value = [t |-> "data", v |-> <<JNull>>]

\* C14 witness: get_comments got a null body and returned the empty list
C14_Witness ==
    /\ api.st = "returned"
    /\ api.call.op = "get_comments"
    /\ api.via = "request"
    /\ api.resp = Ok(JNull)
    /\ api.value = ListValue(<<>>)

\* no two documents of a collection have the same value under the key
UniqueKey(coll, key) ==
    \A m, n \in 1..Len(coll) : coll[m][key] = coll[n][key] => m = n

\* C12: after any sequence of GroupRepository.upsert,
\* DiscussionRepository.upsert and CommentRepository.upsert_many calls, also
\* with batches holding one id more than once, no collection holds two
\* records with the same natural key (Group.uid, Discussion.id, Comment.id).
C12_NaturalKeysUnique ==
    /\ UniqueKey(db_groups, "uid")
    /\ UniqueKey(db_discussions, "id")
    /\ UniqueKey(db_comments, "id")

\* C12 witness: every collection holds several records, a discussion was
\* upserted again under another group id, and the batch upserted last,
\* twice in a row, holds one id twice
C12_Witness ==
    /\ Len(db_groups) = 2
    /\ Len(db_discussions) = 2
    /\ db_discussions[1].group_id = <<"7">>
    /\ db_discussions[2].group_id = <<"4">>
    /\ Len(db_comments) = 3
    /\ last_upsert.times = 2
    /\ Len(last_upsert.batch) = 2
    /\ last_upsert.batch[1].id = last_upsert.batch[2].id

\* the values stored under a key of a collection
Keys(coll, key) == {coll[n][key] : n \in 1..Len(coll)}

\* C15: every persisted Comment's discussion_id is the id of a persisted
\* Discussion, and the group_id of every persisted Discussion and Comment is
\* the uid of a persisted Group.
C15_ReferencesResolve ==
    /\ Keys(db_comments, "discussion_id") \subseteq Keys(db_discussions, "id")
    /\ Keys(db_comments, "group_id") \subseteq Keys(db_groups, "uid")
    /\ Keys(db_discussions, "group_id") \subseteq Keys(db_groups, "uid")

\* C16: every persisted Discussion has a non-empty id and a non-empty
\* group_id, and every persisted Comment a non-empty discussion_id and a
\* non-empty group_id.
C16_StoredKeysNonEmpty ==
    /\ Empty \notin Keys(db_discussions, "id")
    /\ Empty \notin Keys(db_discussions, "group_id")
    /\ Empty \notin Keys(db_comments, "discussion_id")
    /\ Empty \notin Keys(db_comments, "group_id")

\* C16 witness: parse_all_discussions, run on its own, passed over a
\* discussion without identity and persisted another with its comments
C16_Witness ==
    /\ pc = "done"
    /\ db_groups = <<>>
    /\ \E n \in 1..Len(outcomes) : outcomes[n].st = "noid"
    /\ db_discussions # <<>>
    /\ db_comments # <<>>

\* C17: no Group with an empty uid is ever persisted: a group-info answer
\* without resolvable identity (null, empty list, null first element, an
\* entity with neither uid nor id) is refused before the upsert and the run
\* ends with the exception.
C17_NoGroupWithoutUid == Empty \notin Keys(db_groups, "uid")

\* C18: no ingestion step, successful or failed, removes a natural key from
\* the groups, discussions or comments collection.
C18_NoRecordDeleted ==
    [][/\ Keys(db_groups, "uid") \subseteq Keys(db_groups', "uid")
       /\ Keys(db_discussions, "id") \subseteq Keys(db_discussions', "id")
       /\ Keys(db_comments, "id") \subseteq Keys(db_comments', "id")]_vars

\* C18 witness: parse_all_discussions ran over collections that already
\* held a group, a discussion and a comment: a discussion failed, a later
\* one was parsed, and the earlier records stand beside the new ones
C18_Witness ==
    /\ pc = "done"
    /\ db_groups # <<>>
    /\ \A n \in 1..Len(calls) : calls[n].op # "groups.upsert"
    /\ Keys(db_discussions, "id") = {<<"1">>, <<"2">>}
    /\ {<<"1">>, <<"2">>} \subseteq Keys(db_comments, "id")
    /\ \E j, k \in 1..Len(outcomes) :
          j < k /\ outcomes[j].st = "failed" /\ outcomes[k].st = "parsed"

\* C19: once the listing is obtained the run reaches its summary whatever
\* a single discussion causes while its fields are read, while it is
\* upserted or while its comments are fetched or saved: no run ends with an
\* exception raised inside the loop.
C19_LoopNeverRaises ==
    pc = "raised" => result.at \notin LoopStages

\* the record a batch's k-th operation finds under its id: the latest
\* earlier item of the batch with that id, else the stored record, else
\* none
PriorRecord(store, batch, k) ==
    LET earlier == {j \in 1..(k - 1) : batch[j].id = batch[k].id}
        stored == {n \in 1..Len(store) : store[n].id = batch[k].id}
    IN IF earlier # {}
       THEN <<batch[CHOOSE j \in earlier : \A m \in earlier : m <= j]>>
       ELSE IF stored # {}
       THEN <<store[CHOOSE n \in stored : \A m \in stored : n <= m]>>
       ELSE <<>>

\* the operations of a batch that insert a record or change one
Affected(store, batch) ==
    {k \in 1..Len(batch) : PriorRecord(store, batch, k) # <<batch[k]>>}

BulkWritesFor(i) ==
    {n \in 1..Len(calls) : calls[n].op = "comments.bulk_write" /\ calls[n].i = i}

\* every discussion got at most one bulk operation, and an empty batch
\* gives 0 and leaves the store alone
C20_OneBulkWrite ==
    /\ \A i \in 1..Len(discussions) : Cardinality(BulkWritesFor(i)) <= 1
    /\ UpsertMany(db_comments, <<>>) = [coll |-> db_comments, count |-> 0]
    /\ pc = "upsert_many" => comments # <<>>

\* a step changes comments_saved only by a bulk operation that returned,
\* and then by the number of records it inserted or modified
C20_CountStep ==
    /\ (pc = "upsert_many" /\ pc' = "loop" /\ outcomes'[Len(outcomes')].st = "parsed")
          => /\ total_comments' =
                    total_comments + Cardinality(Affected(db_comments, comments))
             /\ outcomes'[Len(outcomes')].count =
                    Cardinality(Affected(db_comments, comments))
             /\ Len(calls') = Len(calls) + 1
    /\ total_comments' # total_comments => pc = "upsert_many"

\* C20: upsert_many issues one bulk operation for the batch and returns the
\* number of records inserted plus the number modified (0 and no store
\* operation for an empty batch), and the orchestrator adds exactly this
\* number to comments_saved.
C20_AffectedCountAccumulated == []C20_OneBulkWrite /\ [][C20_CountStep]_vars

\* C20 witness: a run whose summary counts two operations of one batch on
\* the same id, the first an insert and the second a modification
C20_Witness ==
    /\ pc = "done"
    /\ Len(db_comments) = 1
    /\ result.comments_saved = 2
    /\ result.discussions_parsed = 1

\* what came back on the calls of one method in a history
GotOf(history, op) ==
    {history[n].got : n \in {m \in 1..Len(history) : history[m].op = op}}

\* a direct parse_discussion call, from its start to its return or raise
C22_DirectCallStep ==
    (/\ pc = "idle"
     /\ \/ result'.kind = "count"
        \/ result'.kind = "raised" /\ result'.at = "parse_discussion") =>
        LET fetch == GotOf(calls', "discussions.getComments")
            users == GotOf(calls', "users.getInfo")
            bulk == GotOf(calls', "comments.bulk_write")
        IN /\ (fetch = {} \/ "error" \in fetch \cup users) =>
                  /\ result'.kind = "raised"
                  /\ bulk = {}
           /\ (fetch = {"data"} /\ users = {} /\ comments' = <<>>) =>
                  result'.kind = "raised"
           /\ (result'.kind = "raised" /\ bulk = {}) =>
                  db_comments' = db_comments
           /\ fetch = {"absent"} =>
                  /\ result' = CountResult(0)
                  /\ users \cup bulk = {}
                  /\ db_comments' = db_comments
           /\ (result'.kind = "count" /\ comments' # <<>>) =>
                  /\ bulk = {"ok"}
                  /\ result'.comments_saved =
                         Cardinality(Affected(db_comments, comments'))

\* C22: a direct parse_discussion call raises to its caller, having
\* written no Comment, when the comment fetch fails (validation, transport,
\* protocol or API error) or the author lookup fails; it returns 0 without
\* a write when the fetch yields no comments; otherwise it returns the
\* bulk-upsert count.
C22_DirectParseDiscussion == [][C22_DirectCallStep]_vars

\* C22 witness: a direct call on collections that hold a comment fetched a
\* page, failed in the author lookup, and raised with the collection as it
\* was
C22_Witness ==
    /\ pc = "raised"
    /\ result.at = "parse_discussion"
    /\ GotOf(calls, "discussions.getComments") = {"data"}
    /\ GotOf(calls, "users.getInfo") = {"error"}
    /\ GotOf(calls, "comments.bulk_write") = {}
    /\ Len(db_comments) = 1

CallsFor(op, i) ==
    {n \in 1..Len(calls) : calls[n].op = op /\ calls[n].i = i}

\* lists of user ids handed to get_users_info: the authors of the page in
\* hand, and one valid id more than a call may carry
UserIdBatches ==
    {[n \in 1..(MaxUserIds + 1) |-> <<"7">>],
     [n \in 1..Len(comments_data) |-> Get(comments_data[n], "author_id", Empty)]}

\* the listing is fetched once, and a discussion's comments and authors at
\* most once each
C23_CallCounts ==
    /\ Cardinality(CallsFor("discussions.getList", 0)) <= 1
    /\ pc \in LoopStages \cup {"done"} =>
           Cardinality(CallsFor("discussions.getList", 0)) = 1
    /\ \A i \in 1..Len(discussions) :
           /\ Cardinality(CallsFor("discussions.getComments", i)) <= 1
           /\ Cardinality(CallsFor("users.getInfo", i)) <= 1
           /\ CallsFor("users.getInfo", i) # {} =>
                  CallsFor("discussions.getComments", i) # {}
    /\ pc = "users_info" => ValidAuthorIds(comments_data) # {}

\* users.getInfo is called only for a page with a valid author id, with at
\* most 100 ids
C23_UsersCallStep ==
    (Len(calls') > Len(calls) /\ calls'[Len(calls')].op = "users.getInfo") =>
        /\ pc = "users_info"
        /\ ValidAuthorIds(comments_data) # {}
        /\ \A uids \in UserIdBatches :
               /\ Len(UidsParam(uids)) <= MaxUserIds
               /\ UidsParam(uids) = Prefix(ValidUserIds(uids), 100)

\* C23: one run issues exactly one discussions.getList call and, for each
\* discussion, at most one discussions.getComments call and at most one
\* users.getInfo call, which carries at most 100 user ids and is not made
\* when the comments carry no valid author id.
C23_OnePagePerCall == []C23_CallCounts /\ [][C23_UsersCallStep]_vars

\* C23 witness: a finished run over two discussions, one whose comments
\* had a valid author and one whose comments had none
C23_Witness ==
    /\ pc = "done"
    /\ Len(discussions) = 2
    /\ Cardinality(CallsFor("discussions.getList", 0)) = 1
    /\ \E i, j \in 1..2 :
          /\ CallsFor("users.getInfo", i) # {}
          /\ CallsFor("discussions.getComments", j) # {}
          /\ CallsFor("users.getInfo", j) = {}
          /\ CallsFor("comments.bulk_write", j) # {}

\* C28: each discussion of the capped list is attempted exactly once, in
\* order, whether it failed or not, and each request makes one outbound
\* attempt: no method is called twice for a discussion and a call that
\* failed is followed by no further call for the same discussion.
C28_NoRetry ==
    /\ Len(outcomes) <= Len(discussions)
    /\ \A n \in 1..Len(outcomes) : outcomes[n].i = n
    /\ pc \in LoopStages => Len(outcomes) = idx - 1
    /\ (pc = "done" /\ discussions # <<>>) => Len(outcomes) = Len(discussions)
    /\ \A n \in 1..Len(calls) :
          \A m \in (n + 1)..(n + 3) :
              (m <= Len(calls) /\ calls[m].i = calls[n].i) =>
                  /\ calls[n].got \notin {"error", "raised"}
                  /\ calls[m].op # calls[n].op
    /\ \A n \in 1..(Len(calls) - 4) : calls[n + 4].i # calls[n].i

\* C28 witness: a finished run whose first discussion failed on the round
\* trip of its comment fetch and whose second was parsed
C28_Witness ==
    /\ pc = "done"
    /\ Len(outcomes) = 2
    /\ outcomes[1].st = "failed"
    /\ outcomes[2].st = "parsed"
    /\ \E n \in CallsFor("discussions.getComments", 1) : calls[n].got = "error"

\* C29: a Discussion whose upsert returned stays persisted whatever its
\* comment stage does, only discussions whose comment stage returned are
\* counted in discussions_parsed, and every counted discussion has its
\* Discussion record persisted.
C29_DiscussionKeptOnFailure ==
    /\ \A n \in 1..Len(calls) :
          (calls[n].op = "discussions.upsert" /\ calls[n].got = "ok") =>
              DiscussionId(discussions[calls[n].i]) \in Keys(db_discussions, "id")
    /\ \A n \in 1..Len(outcomes) :
          outcomes[n].st = "parsed" =>
              DiscussionId(discussions[n]) \in Keys(db_discussions, "id")
    /\ parsed_discussions = Len(ParsedOutcomes)

\* C29 witness: a finished run that wrote more Discussion records than it
\* counted: a discussion was upserted and then failed in its comment stage
C29_Witness ==
    /\ pc = "done"
    /\ result.discussions_parsed < Len(db_discussions)
    /\ \E n \in 1..Len(outcomes) :
          /\ outcomes[n].st = "failed"
          /\ \E m \in CallsFor("discussions.upsert", n) : calls[m].got = "ok"

\* C30: the step that makes a discussion fail leaves the comments
\* collection as it was: none of a failed discussion's comments is
\* persisted, so comments_saved counts every record the run wrote.
C30_FailedDiscussionWritesNothing ==
    [][(/\ Len(outcomes') > Len(outcomes)
        /\ outcomes'[Len(outcomes')].st = "failed")
           => db_comments' = db_comments]_vars

\* C21: all outbound calls of the process, of whichever method and client
\* object, are gated by one cursor: a call whose check began after an
\* earlier call's round trip had returned a 2xx status is issued at least
\* the minimum delay after that call.
C21_OneCursorForAll ==
    \A i, j \in 1..Len(issued) :
        (/\ i < j
         /\ issued[i].ok
         /\ issued[i].wrote < issued[j].began) =>
            issued[j].at - issued[i].at >= RateLimitDelay

\* C27: without synchronisation the check and the cursor update of two
\* threads on one client can interleave: every call is issued at least
\* the delay after the cursor value its own check read, and two calls of
\* one client less than the delay apart, the earlier answered with a 2xx
\* status, are calls the later of which read the cursor before the earlier
\* wrote it.
C27_CheckThenActRace ==
    /\ \A j \in 1..Len(issued) :
          issued[j].at >= issued[j].saw + RateLimitDelay
    /\ \A i, j \in 1..Len(issued) :
          (/\ i < j
           /\ issued[i].client = issued[j].client
           /\ issued[i].ok
           /\ issued[j].at - issued[i].at < RateLimitDelay) =>
              issued[j].saw < issued[i].wrote

\* C27 witness: two threads on one client passed their checks against the
\* same cursor value, after an earlier call had set it, and issued their
\* calls less than the delay apart
C27_Witness ==
    \E h, i, j \in 1..Len(issued) :
        /\ h < i /\ i < j
        /\ issued[h].client = issued[i].client
        /\ issued[i].client = issued[j].client
        /\ issued[i].thread # issued[j].thread
        /\ issued[h].ok
        /\ issued[i].saw = issued[h].wrote
        /\ issued[j].saw = issued[h].wrote
        /\ issued[i].ok /\ issued[j].ok
        /\ issued[j].at - issued[i].at < RateLimitDelay

\* part is a piece of the string str
Covers(str, part) ==
    \E n \in 1..(Len(str) - Len(part) + 1) :
        SubSeq(str, n, n + Len(part) - 1) = part

\* C24: the parameters request signs and sends carry method = the given
\* method and format = json, whatever the caller supplied for those keys,
\* the signature is computed over both, and the caller's params are as
\* they were.
C24_MethodAndFormatInjected ==
    \A n \in 1..Len(signing.log) :
        LET e == signing.log[n] IN
        e.op = "request" =>
            /\ e.out.val["method"] = e.method
            /\ e.out.val["format"] = <<"json">>
            /\ Covers(e.out.val["sig"], <<"method", "=">> \o e.method)
            /\ Covers(e.out.val["sig"], <<"format", "=", "json">>)
            /\ ~Covers(e.out.val["sig"], <<"format", "=", "xml">>)
            /\ e.after = e.params

\* C24 witness: a request whose caller supplied method and format itself
C24_Witness ==
    \E n \in 1..Len(signing.log) :
        /\ signing.log[n].op = "request"
        /\ "method" \in DOMAIN signing.log[n].params.val
        /\ signing.log[n].params.val["method"] # signing.log[n].method
        /\ signing.log[n].params.val["format"] = <<"xml">>

\* C25: signing the same mapping twice with the same credentials gives the
\* same signature and the same signed parameters, whatever the insertion
\* order of the parameters and whatever was signed before, and no call
\* changes the credentials.
C25_SigningDeterministic ==
    \A i, j \in 1..Len(signing.log) :
        /\ signing.log[i].auth = signing.auth
        /\ signing.log[i].over.val = signing.log[j].over.val =>
               /\ signing.log[i].out.val["sig"] = signing.log[j].out.val["sig"]
               /\ signing.log[i].out.val = signing.log[j].out.val

\* C25 witness: one mapping was signed in its two insertion orders, with
\* another mapping signed in between
C25_Witness ==
    \E i, k, j \in 1..Len(signing.log) :
        /\ i < k /\ k < j
        /\ signing.log[i].over.val = signing.log[j].over.val
        /\ signing.log[i].over.keys # signing.log[j].over.keys
        /\ signing.log[k].over.val # signing.log[i].over.val

\* the secret the priority rule gives, and the credential parameters of a
\* signed dict
PrioritySecret(a) ==
    IF a.session_secret_key # Empty THEN a.session_secret_key
    ELSE IF a.session_key # Empty THEN Md5(a.session_key \o a.client_secret)
    ELSE Md5(a.access_token \o a.client_secret)

Credentials(out) == {"session_key", "access_token"} \cap DOMAIN out.val

\* the signature ends with the secret of the priority rule,
\* application_key is the public key if set and else the client id, and
\* the credential has the object's value
SignedByPriority(e) ==
    /\ LET sig == e.out.val["sig"]
           tail == PrioritySecret(e.auth) \o <<")">>
       IN /\ Len(sig) > Len(tail)
          /\ sig[1] = "md5("
          /\ SubSeq(sig, Len(sig) - Len(tail) + 1, Len(sig)) = tail
    /\ e.out.val["application_key"] =
           (IF e.auth.public_key # Empty THEN e.auth.public_key
            ELSE e.auth.client_id)
    /\ "application_key" \notin DOMAIN e.over.val =>
           Covers(e.out.val["sig"],
                  <<"application_key", "=">> \o e.out.val["application_key"])
    /\ \A k \in Credentials(e.out) : e.out.val[k] = e.auth[k]

\* C26 as stated: session material has priority in both choices, and
\* exactly one credential parameter is attached, session_key when a
\* session key is set and otherwise access_token.
C26_ExactlyOneCredential ==
    \A n \in 1..Len(signing.log) :
        LET e == signing.log[n] IN
        /\ SignedByPriority(e)
        /\ Cardinality(Credentials(e.out)) = 1
        /\ e.auth.session_key # Empty => Credentials(e.out) = {"session_key"}

\* C26: session material has priority in both choices, and at most one
\* credential parameter is attached: session_key when a session key is
\* set, otherwise access_token when a token is set, and none when neither
\* is set.
C26_CredentialByPriority ==
    \A n \in 1..Len(signing.log) :
        LET e == signing.log[n] IN
        /\ SignedByPriority(e)
        /\ Credentials(e.out) =
               (IF e.auth.session_key # Empty THEN {"session_key"}
                ELSE IF e.auth.access_token # Empty THEN {"access_token"}
                ELSE {})

\* C26 witness: an object holding a session key and an access token signed
\* with the session key's secret and attached the session key alone
C26_Witness ==
    \E n \in 1..Len(signing.log) :
        /\ signing.log[n].auth.session_key # Empty
        /\ signing.log[n].auth.access_token # Empty
        /\ signing.log[n].auth.session_secret_key = Empty
        /\ Credentials(signing.log[n].out) = {"session_key"}

====
